---- MODULE Spec2Model ----
(***************************************************************************)
(* University-Web3: the contract resolver/deployer (utils/) and the domain *)
(* facade (datasource/university_datasource.py) as a state machine.        *)
(*                                                                         *)
(* Addresses are integers: EmptyAddr is the empty string of the config     *)
(* file, an address created by the deployer account is CreateAddress of    *)
(* the account nonce at the time of the creation transaction.              *)
(***************************************************************************)
EXTENDS Integers, Sequences, FiniteSets, TLC

\* ------------------------------------------------------------------ bounds
\* resolver calls (contract_loader.get_contract) of one process run
MaxCalls == 2
\* chain resets (all code and the account nonce are lost) of one run
MaxResets == 1
\* length of the id lists the chain returns to the facade's list reads
MaxLen == 3
\* largest offset and limit passed to the paginated reads
MaxPage == 3
\* deployer processes that share the config file
MaxProcs == 2
\* deployments one deployer process makes
MaxDeploys == 2
\* log entries the chain emits for a subscription
MaxEvents == 4

\* ------------------------------------------------------------ contract types
\* utils/contract_type.py: the closed enumeration
ContractType == {"Professor", "Student", "Course", "University", "Enrollment"}

\* the address value of an undeployed type in config.json
EmptyAddr == 0

\* a test that takes every config address for missing
Truthy_Never(address) == FALSE

\* Python truthiness of a config address: "" is falsy
Truthy(address) == address # EmptyAddr

\* the address of a contract created by the deployer account at a nonce
CreateAddress(n) == n + 1

\* a dependency table in which Professor needs Course
Dependencies_Cyclic(contract_type) ==
    CASE contract_type = "Course" -> <<"Professor">>
      [] contract_type = "Professor" -> <<"Course">>
      [] contract_type = "Enrollment" -> <<"Student", "Professor", "Course">>
      [] contract_type = "University" ->
             <<"Student", "Professor", "Course", "Enrollment">>
      [] OTHER -> <<>>

\* contract_deployer.deploy_with_dependencies: the hardcoded per-type branches
Dependencies(contract_type) ==
    CASE contract_type = "Course" -> <<"Professor">>
      [] contract_type = "Enrollment" -> <<"Student", "Professor", "Course">>
      [] contract_type = "University" ->
             <<"Student", "Professor", "Course", "Enrollment">>
      [] OTHER -> <<>>

\* utils/config_manager.py DEFAULT_CONFIG, with the deployer address that
\* utils/__init__.py derives from the key and writes back at import
DEFAULT_CONFIG ==
    [deployer_address |-> "deployer",
     contracts |-> [t \in ContractType |-> EmptyAddr]]

VARIABLES
    config,     \* utils.config: the in-memory config record of the process
    file,       \* config.json on disk
    code,       \* the chain: the set of addresses that hold bytecode
    nonce,      \* the chain: transaction count of the deployer account
    pc,         \* where the process is: "idle" or inside "dwd"
    stack,      \* call stack of deploy_with_dependencies: frames [ct, i]
    txlog,      \* creation transactions built during the current resolver call
    cur,        \* the resolver call in progress (or the last one): its inputs
    ret,        \* what the last completed resolver call returned
    prev,       \* what the resolver call before that returned
    ncalls,     \* resolver calls started
    nresets,    \* chain resets so far
    fpc,        \* the facade process: import script, constructor, in use
    facade,     \* the UniversityDataSource object
    last,       \* the last facade operation: its inputs and its outcome
    procs,      \* deployer processes sharing the file: memory and position
    sub         \* the event subscription and its listener thread

resolverVars == <<pc, stack, cur, ret, prev, ncalls, nresets>>
facadeVars == <<fpc, facade, last>>
concurrentVars == <<procs, sub>>
vars == <<config, file, code, nonce, txlog, resolverVars, facadeVars,
          concurrentVars>>

\* config.json after an earlier run of deploy_with_dependencies(University)
\* on a fresh chain: five creations at nonces 0..4, in resolution order
DEPLOYED_CONFIG ==
    [deployer_address |-> "deployer",
     contracts |-> [t \in ContractType |->
        CASE t = "Student" -> CreateAddress(0)
          [] t = "Professor" -> CreateAddress(1)
          [] t = "Course" -> CreateAddress(2)
          [] t = "Enrollment" -> CreateAddress(3)
          [] t = "University" -> CreateAddress(4)]]

\* Python values of the facade's arguments and results, tagged by type
None == [t |-> "none", v |-> 0]
PyInt(n) == [t |-> "int", v |-> n]
PyStr(x) == [t |-> "str", v |-> x]
PyList(x) == [t |-> "list", v |-> x]
PyBool(b) == [t |-> "bool", v |-> b]

\* no other deployer process runs; nothing is subscribed
NoProcs == <<>>
NoSub == [state |-> "none", result |-> "none", err |-> "none",
          event_name |-> None, callback |-> FALSE, emitted |-> <<>>,
          fetched |-> <<>>, batch |-> <<>>, invoked |-> <<>>,
          cause |-> "none"]

\* no UniversityDataSource has been constructed
NoFacade == [university_contract |-> EmptyAddr, account_address |-> None,
             admin_address |-> None, error |-> "none"]
\* no transaction was built, no contract call was made
NoTx == [fn |-> "none", fnargs |-> <<>>, params |-> {}, gas |-> None,
         gas_price |-> None, wait |-> FALSE, outcome |-> "none"]
NoContractCall == [fn |-> "none", fnargs |-> <<>>, handle |-> EmptyAddr,
                   result |-> "none", data |-> None]
\* no facade operation has been called
NoOp == [op |-> "none", args |-> <<>>, validation |-> "none",
         kind |-> "none", value |-> None, err |-> "none", network |-> 0,
         sent |-> 0, tx |-> NoTx, call |-> NoContractCall,
         resolve |-> "none", config0 |-> DEFAULT_CONFIG,
         file0 |-> DEFAULT_CONFIG]

NoCall == [ct |-> "none", cfg0 |-> DEFAULT_CONFIG.contracts, code0 |-> {},
           probe |-> "skipped", deployed |-> FALSE]
NoRet == [ct |-> "none", kind |-> "none", err |-> "none", addr |-> EmptyAddr,
          ndeploy |-> 0, deployed |-> FALSE, done |-> {}]

\* a probe that answers "deployed" when the node cannot be reached
verify_contract_TrustOnError(address, chain, nodeUp) ==
    IF nodeUp THEN address \in chain ELSE TRUE

\* ------------------------------------------------------------ pure helpers
\* contract_verifier.verify_contract: len(get_code(address)) > 0, and False
\* when the probe raises
verify_contract(address, chain, nodeUp) ==
    IF nodeUp THEN address \in chain ELSE FALSE

\* a deployed-check that trusts any non-empty address (no code probe)
IsDeployed_NoProbe(address, chain, nodeUp) == Truthy(address)

\* contract_loader.get_contract line 18: the deployed-check
\* (address and verify_contract(address)); the probe is skipped for ""
IsDeployed(address, chain, nodeUp) ==
    Truthy(address) /\ verify_contract(address, chain, nodeUp)

\* what the probe of line 18 did
ProbeResult(address, chain, nodeUp) ==
    IF ~Truthy(address) THEN "skipped"
    ELSE IF ~nodeUp THEN "error"
    ELSE IF address \in chain THEN "code" ELSE "nocode"

\* constructor arguments taken from the config as it was when the resolver
\* call started, before any dependency was deployed
ConstructorArgs_BeforeRecursion(contract_type, contracts) ==
    [k \in 1..Len(Dependencies(contract_type)) |->
        cur.cfg0[Dependencies(contract_type)[k]]]

\* deploy_with_dependencies lines 64, 71-78, 85-93: the constructor arguments
\* are read from the config after the dependency loop
ConstructorArgs(contract_type, contracts) ==
    [k \in 1..Len(Dependencies(contract_type)) |->
        contracts[Dependencies(contract_type)[k]]]

\* a deploy_contract that forgets to store the receipt's address
SetAddress_Forgotten(cfg, contract_type, address) == cfg

\* deploy_contract line 48: the receipt's address is stored under the type
SetAddress(cfg, contract_type, address) ==
    [cfg EXCEPT !.contracts[contract_type] = address]

\* an update_config that leaves the file as it is
update_config_NoWrite(cfg) == file

\* project_components.update_config: a full rewrite of the file from config
update_config(cfg) == cfg

\* number of creation transactions of a type in a log
RECURSIVE CountOf(_, _)
CountOf(log, contract_type) ==
    IF log = <<>> THEN 0
    ELSE (IF Head(log).ct = contract_type /\ Head(log).status # -2
          THEN 1 ELSE 0)
         + CountOf(Tail(log), contract_type)

\* ------------------------------------------------------------------- Init
\* process start (utils/__init__.py lines 21-22): the config is what the
\* file holds, either the default file or the file of a completed deployment
Init ==
    /\ \/ /\ file = DEFAULT_CONFIG
          /\ code = {}
          /\ nonce = 0
       \/ /\ file = DEPLOYED_CONFIG
          /\ code = {DEPLOYED_CONFIG.contracts[t] : t \in ContractType}
          /\ nonce = Cardinality(ContractType)
    /\ config = file
    /\ pc = "idle"
    /\ stack = <<>>
    /\ txlog = <<>>
    /\ cur = NoCall
    /\ ret = NoRet
    /\ prev = NoRet
    /\ ncalls = 0
    /\ nresets = 0
    /\ fpc = "none"
    /\ facade = NoFacade
    /\ last = NoOp
    /\ procs = NoProcs
    /\ sub = NoSub

\* --------------------------------------------------------------- resolver
\* a resolver call ends: normally with a handle bound to addr, or by raising
Return(kind, err, addr, log) ==
    /\ pc' = "idle"
    /\ stack' = <<>>
    /\ prev' = ret
    /\ ret' = [ct |-> cur'.ct, kind |-> kind, err |-> err, addr |-> addr,
               ndeploy |-> CountOf(log, cur'.ct), deployed |-> cur'.deployed,
               done |-> {log[k].ct : k \in {j \in 1..Len(log) :
                                                log[j].status >= 0}}]

\* contract_loader.get_contract, lines 15-20 and 23-27
get_contract(contract_type, nodeUp) ==
    /\ pc = "idle"
    /\ ncalls < MaxCalls
    /\ ncalls' = ncalls + 1
    /\ LET address == config.contracts[contract_type]
           deployed == IsDeployed(address, code, nodeUp)
       IN /\ cur' = [ct |-> contract_type, cfg0 |-> config.contracts,
                     code0 |-> code,
                     probe |-> ProbeResult(address, code, nodeUp),
                     deployed |-> deployed]
          /\ txlog' = <<>>
          /\ IF deployed
             THEN Return("handle", "none", address, <<>>)
             ELSE /\ pc' = "dwd"
                  /\ stack' = <<[ct |-> contract_type, i |-> 1]>>
                  /\ UNCHANGED <<ret, prev>>
    /\ UNCHANGED <<config, file, code, nonce, nresets, facadeVars,
                   concurrentVars>>

Top == stack[Len(stack)]
Pop(s) == SubSeq(s, 1, Len(s) - 1)

\* the callee frame returned: the caller's loop moves to its next dependency
PopAndAdvance(s) ==
    LET r == Pop(s)
    IN IF r = <<>> THEN r
       ELSE [r EXCEPT ![Len(r)].i = r[Len(r)].i + 1]

\* deploy_with_dependencies lines 61-62, 67-69, 81-83: one iteration of the
\* dependency loop; a dependency is resolved only when its entry is falsy
CheckDependency ==
    /\ pc = "dwd"
    /\ Top.i <= Len(Dependencies(Top.ct))
    /\ LET dep == Dependencies(Top.ct)[Top.i]
       IN IF ~Truthy(config.contracts[dep])
          THEN stack' = Append(stack, [ct |-> dep, i |-> 1])
          ELSE stack' = [stack EXCEPT ![Len(stack)].i = Top.i + 1]
    /\ UNCHANGED <<config, file, code, nonce, pc, txlog, cur, ret, prev,
                   ncalls, nresets, facadeVars, concurrentVars>>

\* what happens to a creation of deploy_contract:
\*   "ok"            mined, receipt status 1, code at the created address
\*   "reverted"      mined, receipt status 0, no code at the created address
\*   "not_found"     the ABI or the bytecode file is missing (line 34)
\*   "raises_unsent" an exception while the transaction is built, signed or
\*                   submitted (lines 36-44)
\*   "raises_sent"   sent, and wait_for_transaction_receipt raises (line 45)
DeployOutcomes ==
    {"ok", "reverted", "not_found", "raises_unsent", "raises_sent"}

Raises(outcome) ==
    outcome \in {"not_found", "raises_unsent", "raises_sent"}

\* a deploy_contract that does not look for the artifact files
ArtifactsMissing_Unchecked(outcome) == FALSE

\* _load_contract_artifacts lines 16-19: FileNotFoundError when the ABI or
\* the bytecode file does not exist
ArtifactsMissing(outcome) == outcome = "not_found"

\* the exception deploy_contract raises
DeployError(outcome) ==
    IF outcome = "not_found" THEN "FileNotFoundError" ELSE "Exception"

\* contract_deployer.deploy_contract, lines 29-50. The receipt status is never
\* looked at: the receipt's contractAddress is written to the config and the
\* file whenever a receipt arrives. When it raises nothing is written. The
\* log entry has status 1 or 0 of the receipt, -1 sent without a receipt,
\* -2 never sent.
deploy_contract(contract_type, constructor_args, outcome) ==
    LET addr == IF Raises(outcome) THEN EmptyAddr ELSE CreateAddress(nonce)
        tx == [ct |-> contract_type, args |-> constructor_args,
               addr |-> addr,
               status |-> CASE outcome = "ok" -> 1
                            [] outcome = "reverted" -> 0
                            [] outcome = "raises_sent" -> -1
                            [] OTHER -> -2,
               chain |-> code]
    IN /\ txlog' = IF ArtifactsMissing(outcome) THEN txlog
                   ELSE Append(txlog, tx)
       /\ nonce' = IF outcome \in {"ok", "reverted", "raises_sent"}
                   THEN nonce + 1 ELSE nonce
       /\ code' = IF outcome = "ok" THEN code \cup {addr} ELSE code
       /\ config' = IF Raises(outcome) THEN config
                    ELSE SetAddress(config, contract_type, addr)
       /\ file' = IF Raises(outcome) THEN file ELSE update_config(config')

\* deploy_with_dependencies lines 64, 71-78, 85-93, 96: the dependency loop of
\* the top frame is over and deploy_contract is called; its handle is the
\* frame's return value (bound to the receipt's contractAddress, line 50),
\* its exception unwinds every frame and get_contract
DeployStep(outcome) ==
    /\ pc = "dwd"
    /\ Top.i > Len(Dependencies(Top.ct))
    /\ deploy_contract(Top.ct, ConstructorArgs(Top.ct, config.contracts),
                       outcome)
    /\ cur' = cur
    /\ IF Raises(outcome)
       THEN Return("error", DeployError(outcome), EmptyAddr, txlog')
       ELSE IF Len(stack) = 1
            THEN Return("handle", "none", CreateAddress(nonce), txlog')
            ELSE /\ stack' = PopAndAdvance(stack)
                 /\ UNCHANGED <<pc, ret, prev>>
    /\ UNCHANGED <<ncalls, nresets, facadeVars, concurrentVars>>

DeployOk == DeployStep("ok")

DeployReverted == DeployStep("reverted")

DeployNotFound == DeployStep("not_found")

DeployRaises == \E o \in {"raises_unsent", "raises_sent"} : DeployStep(o)

\* the chain is reset (a test node restarted): no address holds code and the
\* account nonce starts again
ChainReset ==
    /\ pc = "idle"
    /\ nresets < MaxResets
    /\ code # {}
    /\ code' = {}
    /\ nonce' = 0
    /\ nresets' = nresets + 1
    /\ UNCHANGED <<config, file, pc, stack, txlog, cur, ret, prev, ncalls,
                   facadeVars, concurrentVars>>

Next ==
    \/ \E t \in ContractType, nodeUp \in BOOLEAN : get_contract(t, nodeUp)
    \/ CheckDependency
    \/ DeployOk
    \/ DeployReverted
    \/ DeployNotFound
    \/ DeployRaises
    \/ ChainReset

Spec == Init /\ [][Next]_vars

\* process start with any config.json: every entry is empty or holds the
\* address an earlier run wrote, and the chain still has the code of these
\* addresses or was reset since
InitTerminates ==
    /\ \E missing \in SUBSET ContractType :
         file = [DEPLOYED_CONFIG EXCEPT
                   !.contracts = [t \in ContractType |->
                                     IF t \in missing THEN EmptyAddr
                                     ELSE DEPLOYED_CONFIG.contracts[t]]]
    /\ \/ /\ code = {file.contracts[t] : t \in ContractType} \ {EmptyAddr}
          /\ nonce = Cardinality(ContractType)
       \/ /\ code = {}
          /\ nonce = 0
    /\ config = file
    /\ pc = "idle"
    /\ stack = <<>>
    /\ txlog = <<>>
    /\ cur = NoCall
    /\ ret = NoRet
    /\ prev = NoRet
    /\ ncalls = 0
    /\ nresets = 0
    /\ fpc = "none"
    /\ facade = NoFacade
    /\ last = NoOp
    /\ procs = NoProcs
    /\ sub = NoSub

\* the first resolver call of the process
FirstCall ==
    /\ ncalls = 0
    /\ \E t \in ContractType, nodeUp \in BOOLEAN : get_contract(t, nodeUp)

\* one resolver call and the steps of its deploy_with_dependencies
NextTerminates ==
    \/ FirstCall
    \/ CheckDependency
    \/ DeployOk
    \/ DeployReverted
    \/ DeployNotFound
    \/ DeployRaises

\* the resolver under the assumption that the interpreter goes on and that
\* every creation comes back (lines 44-45 return or raise)
SpecTerminates ==
    /\ InitTerminates
    /\ [][NextTerminates]_vars
    /\ WF_vars(CheckDependency)
    /\ WF_vars(DeployOk \/ DeployReverted \/ DeployNotFound \/ DeployRaises)

\* ================================================= facade: process start
\* config.json after DEPLOYED_CONFIG, a chain reset, and one resolver call
\* get_contract(University): University is recreated at the first address of
\* the new chain, every other entry is left as it was
REDEPLOYED_CONFIG ==
    SetAddress(DEPLOYED_CONFIG, "University", CreateAddress(0))

\* the process that imports the datasource package starts (utils/__init__.py
\* has loaded the file): the default file, the file of a completed
\* deployment with the chain intact, the same file after a chain reset, or
\* after a reset and a re-resolution of University
InitFacade ==
    /\ \/ /\ file = DEFAULT_CONFIG
          /\ code = {}
          /\ nonce = 0
       \/ /\ file = DEPLOYED_CONFIG
          /\ code = {DEPLOYED_CONFIG.contracts[t] : t \in ContractType}
          /\ nonce = Cardinality(ContractType)
       \/ /\ file = DEPLOYED_CONFIG
          /\ code = {}
          /\ nonce = 0
       \/ /\ file = REDEPLOYED_CONFIG
          /\ code = {CreateAddress(0)}
          /\ nonce = 1
    /\ config = file
    /\ pc = "idle"
    /\ stack = <<>>
    /\ txlog = <<>>
    /\ cur = NoCall
    /\ ret = NoRet
    /\ prev = NoRet
    /\ ncalls = 0
    /\ nresets = 0
    /\ fpc = "import_Professor"
    /\ facade = NoFacade
    /\ last = NoOp
    /\ procs = NoProcs
    /\ sub = NoSub

\* the import script raised: the import of the package fails
ImportFailed ==
    /\ fpc' = "failed"
    /\ facade' = [facade EXCEPT !.error = "import"]

\* datasource/__init__.py lines 10-12: Professor, then Student, is deployed
\* without arguments when its entry equals ""
ImportLeaf ==
    /\ fpc \in {"import_Professor", "import_Student"}
    /\ LET contract_type ==
               IF fpc = "import_Professor" THEN "Professor" ELSE "Student"
           next == IF fpc = "import_Professor" THEN "import_Student"
                   ELSE "import_loop1"
       IN IF config.contracts[contract_type] = EmptyAddr
          THEN \E outcome \in DeployOutcomes :
                 /\ deploy_contract(contract_type, <<>>, outcome)
                 /\ IF Raises(outcome) THEN ImportFailed
                    ELSE fpc' = next /\ facade' = facade
          ELSE /\ fpc' = next
               /\ UNCHANGED <<config, file, code, nonce, txlog, facade>>
    /\ UNCHANGED <<resolverVars, concurrentVars, last>>

\* datasource/__init__.py lines 14-34: two iterations of the same body; Course
\* is deployed with (Professor, Student) when its entry equals "", else
\* University with (Student, Professor, Course) when its entry equals ""
ImportLoop ==
    /\ fpc \in {"import_loop1", "import_loop2"}
    /\ LET next == IF fpc = "import_loop1" THEN "import_loop2"
                   ELSE "construct"
           contracts == config.contracts
           Deploying(contract_type, constructor_args) ==
               \E outcome \in DeployOutcomes :
                 /\ deploy_contract(contract_type, constructor_args, outcome)
                 /\ IF Raises(outcome) THEN ImportFailed
                    ELSE fpc' = next /\ facade' = facade
       IN IF contracts["Course"] = EmptyAddr
          THEN Deploying("Course",
                         <<contracts["Professor"], contracts["Student"]>>)
          ELSE IF contracts["University"] = EmptyAddr
          THEN Deploying("University",
                         <<contracts["Student"], contracts["Professor"],
                           contracts["Course"]>>)
          ELSE /\ fpc' = next
               /\ UNCHANGED <<config, file, code, nonce, txlog, facade>>
    /\ UNCHANGED <<resolverVars, concurrentVars, last>>

\* contract_finder.get_contract, lines 8-20: the handle is bound to whatever
\* non-empty address the config holds; nothing is probed or deployed
finder_get_contract(contract_type, contracts, abiExists) ==
    IF ~abiExists THEN [kind |-> "raise", err |-> "FileNotFoundError"]
    ELSE IF ~Truthy(contracts[contract_type])
    THEN [kind |-> "raise", err |-> "ValueError"]
    ELSE [kind |-> "handle", addr |-> contracts[contract_type]]

\* a read-only call on a handle (functions.f(...).call()): the node answers,
\* the call reverts, the node is unreachable, or the address has no code and
\* web3 raises on the empty answer
CallOutcomes == {"ok", "reverts", "unreachable"}

CallResult(address, chain, answer) ==
    IF answer = "unreachable" THEN "unreachable"
    ELSE IF address \notin chain THEN "nocode"
    ELSE answer

\* UniversityDataSource.__init__, lines 15-35: the University handle comes
\* from contract_finder, then three calls on it fetch the contract addresses
Construct ==
    /\ fpc = "construct"
    /\ \E abiExists \in BOOLEAN, answer \in CallOutcomes,
          account \in {None, PyStr("account")},
          admin \in {None, PyStr("admin")} :
        LET h == finder_get_contract("University", config.contracts,
                                     abiExists)
            called == IF h.kind = "handle"
                      THEN CallResult(h.addr, code, answer) ELSE "none"
        IN IF h.kind = "raise"
           THEN /\ fpc' = "failed"
                /\ facade' = [facade EXCEPT !.error = h.err]
           ELSE IF called # "ok"
           THEN /\ fpc' = "failed"
                /\ facade' = [facade EXCEPT !.university_contract = h.addr,
                                            !.error = called]
           ELSE /\ fpc' = "ready"
                /\ facade' = [university_contract |-> h.addr,
                              account_address |-> account,
                              admin_address |-> admin,
                              error |-> "none"]
    /\ UNCHANGED <<config, file, code, nonce, txlog, resolverVars,
                   concurrentVars, last>>

NextFacade ==
    \/ ImportLeaf
    \/ ImportLoop
    \/ Construct

SpecFacade == InitFacade /\ [][NextFacade]_vars

\* ================================================= facade: operations
\* -------------------------------------------------- Python expressions
\* `not x`
Not(x) ==
    CASE x.t = "none" -> TRUE
      [] x.t = "int" -> x.v = 0
      [] x.t = "str" -> x.v = ""
      [] x.t = "list" -> x.v = <<>>
      [] x.t = "bool" -> ~x.v

\* `x or d`
Or(x, d) == IF Not(x) THEN d ELSE x

\* `max(0, int(x or 0))` of update_student, lines 185-186
ClampedInt(x) ==
    LET y == Or(x, PyInt(0)) IN IF y.v < 0 THEN PyInt(0) ELSE y

\* one operand of a validation `if a or b or ...: raise ValueError`:
\* "T" true, "F" false, "E" the operand itself raises TypeError
IsFalsy(x) == IF Not(x) THEN "T" ELSE "F"

\* a comparison that lets 0 through
LeZero_Strict(x) ==
    IF x.t = "int" THEN (IF x.v < 0 THEN "T" ELSE "F") ELSE "E"

\* `x <= 0`: defined between integers only
LeZero(x) ==
    IF x.t = "int" THEN (IF x.v <= 0 THEN "T" ELSE "F") ELSE "E"

\* the `or` chain evaluated left to right with short circuit
RECURSIVE Validate(_)
Validate(operands) ==
    IF operands = <<>> THEN "ok"
    ELSE IF Head(operands) = "T" THEN "ValueError"
    ELSE IF Head(operands) = "E" THEN "TypeError"
    ELSE Validate(Tail(operands))

\* list[start:stop] for integer bounds
PySlice(list, start, stop) ==
    LET n == Len(list)
        Norm(k) == IF k < 0 THEN (IF k + n < 0 THEN 0 ELSE k + n)
                   ELSE (IF k > n THEN n ELSE k)
    IN IF Norm(start) < Norm(stop)
       THEN SubSeq(list, Norm(start) + 1, Norm(stop))
       ELSE <<>>

\* ------------------------------------------------------- input domains
IntArgs == {PyInt(-1), PyInt(0), PyInt(1)}
StrArgs == {PyStr(""), PyStr("a")}
OptStrArgs == {None, PyStr("a")}
OptIntArgs == {None, PyInt(-1), PyInt(1)}
\* course ids: annotated str, compared with 0 by the validations
CourseIdArgs == {PyStr(""), PyStr("CS101"), PyInt(-1), PyInt(0), PyInt(1)}
IdListArgs == {PyList(<<>>), PyList(<<1>>), PyList(<<0, 1>>)}
GasArgs == {None, PyInt(0), PyInt(1)}
EventNames == {PyStr("StudentEnrolled"), PyStr("NoSuchEvent")}

\* the id lists a list read can get from the chain: no id twice
IdLists ==
    UNION {{q \in [1..n -> 1..MaxLen] : \A i, j \in 1..n : i # j => q[i] # q[j]}
           : n \in 0..MaxLen}

\* ------------------------------------------------- transaction plumbing
\* UniversityDataSource._get_transaction_params, lines 45-72: the set of
\* (key, value) pairs of the dictionary
get_transaction_params(gas, gas_price, use_admin) ==
    LET address == IF use_admin THEN facade.admin_address
                   ELSE facade.account_address
    IN (IF Not(address) THEN {} ELSE {<<"from", address>>})
       \cup (IF Not(gas) THEN {} ELSE {<<"gas", gas>>})
       \cup (IF Not(gas_price) THEN {} ELSE {<<"gasPrice", gas_price>>})

\* what the node does with a transaction of the facade:
\*   "transact_raises" transact() raises, nothing is submitted
\*   "status1"         mined with receipt status 1
\*   "status0"         mined with receipt status 0 (failed)
\*   "no_receipt"      submitted, no receipt arrives within the wait
TxOutcomes == {"transact_raises", "status1", "status0", "no_receipt"}

\* a handler that sends the transaction again when no receipt arrives
handle_transaction_Resend(wait_for_receipt, outcome) ==
    CASE outcome = "transact_raises" ->
            [kind |-> "raise", value |-> None, err |-> "Exception",
             network |-> 1, sent |-> 0]
      [] ~wait_for_receipt ->
            [kind |-> "return", value |-> PyStr("tx_hash"), err |-> "none",
             network |-> 1, sent |-> 1]
      [] outcome = "no_receipt" ->
            [kind |-> "raise", value |-> None, err |-> "Exception",
             network |-> 4, sent |-> 2]
      [] outcome = "status0" ->
            [kind |-> "raise", value |-> None, err |-> "Exception",
             network |-> 2, sent |-> 1]
      [] OTHER ->
            [kind |-> "return", value |-> PyStr("receipt"), err |-> "none",
             network |-> 2, sent |-> 1]

\* a receipt status 0 returned to the caller instead of raised
handle_transaction_StatusIgnored(wait_for_receipt, outcome) ==
    CASE outcome = "transact_raises" ->
            [kind |-> "raise", value |-> None, err |-> "Exception",
             network |-> 1, sent |-> 0]
      [] ~wait_for_receipt ->
            [kind |-> "return", value |-> PyStr("tx_hash"), err |-> "none",
             network |-> 1, sent |-> 1]
      [] outcome = "no_receipt" ->
            [kind |-> "raise", value |-> None, err |-> "Exception",
             network |-> 2, sent |-> 1]
      [] OTHER ->
            [kind |-> "return", value |-> PyStr("receipt"), err |-> "none",
             network |-> 2, sent |-> 1]

\* UniversityDataSource._handle_transaction, lines 87-100: transact, then
\* with wait_for_receipt wait for the receipt and raise on status 0; every
\* exception is re-raised (line 100)
handle_transaction(wait_for_receipt, outcome) ==
    CASE outcome = "transact_raises" ->
            [kind |-> "raise", value |-> None, err |-> "Exception",
             network |-> 1, sent |-> 0]
      [] ~wait_for_receipt ->
            [kind |-> "return", value |-> PyStr("tx_hash"), err |-> "none",
             network |-> 1, sent |-> 1]
      [] outcome = "no_receipt" ->
            [kind |-> "raise", value |-> None, err |-> "Exception",
             network |-> 2, sent |-> 1]
      [] outcome = "status0" ->
            [kind |-> "raise", value |-> None, err |-> "Exception",
             network |-> 2, sent |-> 1]
      [] OTHER ->
            [kind |-> "return", value |-> PyStr("receipt"), err |-> "none",
             network |-> 2, sent |-> 1]

\* the record of an operation that raised in its validation
ValidationRaised(op, args, validation) ==
    [NoOp EXCEPT !.op = op, !.args = args, !.validation = validation,
                 !.kind = "raise", !.err = validation,
                 !.config0 = config, !.file0 = file]

\* the common tail of every write operation: validation, then
\* _get_transaction_params, functions.fn(*fnargs), _handle_transaction
Write(op, args, validation, fn, fnargs, use_admin) ==
    /\ \E gas \in GasArgs, gas_price \in GasArgs, wait \in BOOLEAN,
          outcome \in TxOutcomes :
         last' =
           IF validation # "ok" THEN ValidationRaised(op, args, validation)
           ELSE LET r == handle_transaction(wait, outcome)
                IN [NoOp EXCEPT
                      !.op = op, !.args = args, !.validation = validation,
                      !.kind = r.kind, !.value = r.value, !.err = r.err,
                      !.network = r.network, !.sent = r.sent,
                      !.tx = [fn |-> fn, fnargs |-> fnargs,
                              params |-> get_transaction_params(
                                             gas, gas_price, use_admin),
                              gas |-> gas, gas_price |-> gas_price,
                              wait |-> wait, outcome |-> outcome],
                      !.config0 = config, !.file0 = file]
    /\ fpc' = "returned"
    /\ UNCHANGED <<config, file, code, nonce, txlog, resolverVars,
                   concurrentVars, facade>>

\* --------------------------------------------------- write operations
\* lines 104-118
add_student ==
    /\ fpc = "ready"
    /\ \E name \in StrArgs, major \in StrArgs, year \in IntArgs,
       professor_id \in IntArgs :
      Write("add_student", <<name, major, year, professor_id>>,
            Validate(<<IsFalsy(name), IsFalsy(major), LeZero(year),
                       LeZero(professor_id)>>),
            "addStudent", <<name, major, year, professor_id>>, FALSE)

\* lines 168-192
update_student ==
    /\ fpc = "ready"
    /\ \E student_id \in IntArgs, name \in OptStrArgs, major \in OptStrArgs,
       year \in OptIntArgs, professor_id \in OptIntArgs :
      Write("update_student", <<student_id, name, major, year, professor_id>>,
            Validate(<<LeZero(student_id)>>),
            "updateStudent",
            <<student_id, Or(name, PyStr("")), Or(major, PyStr("")),
              ClampedInt(year), ClampedInt(professor_id)>>, FALSE)

\* lines 194-208
delete_student ==
    /\ fpc = "ready"
    /\ \E student_id \in IntArgs :
      Write("delete_student", <<student_id>>,
            Validate(<<LeZero(student_id)>>),
            "deleteStudent", <<student_id>>, FALSE)

\* lines 236-250
add_professor ==
    /\ fpc = "ready"
    /\ \E name \in StrArgs, department \in StrArgs :
      Write("add_professor", <<name, department>>,
            Validate(<<IsFalsy(name), IsFalsy(department)>>),
            "addProfessor", <<name, department>>, FALSE)

\* lines 276-297
update_professor ==
    /\ fpc = "ready"
    /\ \E professor_id \in IntArgs, name \in OptStrArgs,
       department \in OptStrArgs :
      Write("update_professor", <<professor_id, name, department>>,
            Validate(<<LeZero(professor_id)>>),
            "updateProfessor",
            <<professor_id, Or(name, PyStr("")), Or(department, PyStr(""))>>,
            FALSE)

\* lines 299-313
delete_professor ==
    /\ fpc = "ready"
    /\ \E professor_id \in IntArgs :
      Write("delete_professor", <<professor_id>>,
            Validate(<<LeZero(professor_id)>>),
            "deleteProfessor", <<professor_id>>, FALSE)

\* lines 332-346
create_course ==
    /\ fpc = "ready"
    /\ \E course_id \in CourseIdArgs, name \in StrArgs,
       professor_id \in IntArgs :
      Write("create_course", <<course_id, name, professor_id>>,
            Validate(<<IsFalsy(course_id), IsFalsy(name),
                       LeZero(professor_id), LeZero(course_id)>>),
            "createCourse", <<course_id, name, professor_id>>, FALSE)

\* lines 348-362
update_course ==
    /\ fpc = "ready"
    /\ \E course_id \in CourseIdArgs, name \in StrArgs :
      Write("update_course", <<course_id, name>>,
            Validate(<<IsFalsy(course_id), LeZero(course_id)>>),
            "updateCourse", <<course_id, name>>, FALSE)

\* lines 364-378
reassign_course ==
    /\ fpc = "ready"
    /\ \E course_id \in CourseIdArgs, new_professor_id \in IntArgs :
      Write("reassign_course", <<course_id, new_professor_id>>,
            Validate(<<IsFalsy(course_id), LeZero(new_professor_id),
                       LeZero(course_id)>>),
            "reassignCourse", <<course_id, new_professor_id>>, FALSE)

\* lines 380-394
delete_course ==
    /\ fpc = "ready"
    /\ \E course_id \in CourseIdArgs :
      Write("delete_course", <<course_id>>,
            Validate(<<IsFalsy(course_id), LeZero(course_id)>>),
            "deleteCourse", <<course_id>>, FALSE)

\* lines 467-481
enroll_student_in_course ==
    /\ fpc = "ready"
    /\ \E student_id \in IntArgs, course_id \in CourseIdArgs :
      Write("enroll_student_in_course", <<student_id, course_id>>,
            Validate(<<LeZero(student_id), IsFalsy(course_id),
                       LeZero(course_id), IsFalsy(student_id)>>),
            "enrollStudentInCourse", <<student_id, course_id>>, FALSE)

\* lines 483-497
batch_enroll_students ==
    /\ fpc = "ready"
    /\ \E student_ids \in IdListArgs, course_id \in CourseIdArgs :
      Write("batch_enroll_students", <<student_ids, course_id>>,
            Validate(<<IsFalsy(student_ids), IsFalsy(course_id),
                       LeZero(course_id), LeZero(student_ids)>>),
            "batchEnroll", <<student_ids, course_id>>, FALSE)

\* lines 499-513
remove_course_from_student ==
    /\ fpc = "ready"
    /\ \E student_id \in IntArgs, course_id \in CourseIdArgs :
      Write("remove_course_from_student", <<student_id, course_id>>,
            Validate(<<LeZero(student_id), IsFalsy(course_id),
                       IsFalsy(student_id), LeZero(course_id)>>),
            "removeCourseFromStudent", <<student_id, course_id>>, FALSE)

\* lines 515-529
clear_all_courses_for_student ==
    /\ fpc = "ready"
    /\ \E student_id \in IntArgs :
      Write("clear_all_courses_for_student", <<student_id>>,
            Validate(<<LeZero(student_id), IsFalsy(student_id)>>),
            "clearAllCoursesForStudent", <<student_id>>, FALSE)

\* lines 548-562
authorize_instructor ==
    /\ fpc = "ready"
    /\ \E instructor_address \in StrArgs :
      Write("authorize_instructor", <<instructor_address>>,
            Validate(<<IsFalsy(instructor_address)>>),
            "authorizeInstructor", <<instructor_address>>, TRUE)

\* lines 564-578
deauthorize_instructor ==
    /\ fpc = "ready"
    /\ \E instructor_address \in StrArgs :
      Write("deauthorize_instructor", <<instructor_address>>,
            Validate(<<IsFalsy(instructor_address)>>),
            "deauthorizeInstructor", <<instructor_address>>, TRUE)

WriteOperations ==
    \/ add_student \/ update_student \/ delete_student
    \/ add_professor \/ update_professor \/ delete_professor
    \/ create_course \/ update_course \/ reassign_course \/ delete_course
    \/ enroll_student_in_course \/ batch_enroll_students
    \/ remove_course_from_student \/ clear_all_courses_for_student
    \/ authorize_instructor \/ deauthorize_instructor

\* ---------------------------------------------------- read plumbing
\* an except clause that swallows the exception and returns None
Reraise_Swallowed == None

\* `except Exception: ... raise` of the single-entity reads (lines 141-143,
\* 272-274, 419-421): the exception reaches the caller
Reraise == [t |-> "raise", v |-> 0]

\* an except clause of a list read that lets the exception through
EmptyListOnError_Raised == [t |-> "raise", v |-> 0]

\* `except Exception: ... return []` of the list reads (lines 164-166,
\* 230-232, 326-328, 434-436, 461-463, 542-544, 664-666)
EmptyListOnError == PyList(<<>>)

\* `except Exception: ... return False` of is_authorized_instructor
\* (lines 589-591)
FalseOnError == PyBool(FALSE)

\* self.university_contract: the handle bound in __init__ (line 25)
UniversityHandle ==
    [kind |-> "handle", addr |-> facade.university_contract]

\* the body of a read's try block failed with err after `network` round
\* trips: the except clause returns its fallback or re-raises
ReadFailed(op, args, validation, call, err, network, fallback, resolve) ==
    [NoOp EXCEPT !.op = op, !.args = args, !.validation = validation,
                 !.kind = IF fallback.t = "raise" THEN "raise" ELSE "return",
                 !.value = IF fallback.t = "raise" THEN None ELSE fallback,
                 !.err = err, !.network = network, !.call = call,
                 !.resolve = resolve,
                 !.config0 = config, !.file0 = file]

\* the common shape of every read operation: validation (outside the try),
\* then inside the try the handle, one call functions.fn(*fnargs).call()
\* answered with data, and the reshaping of data into value
Read(op, args, validation, handle, fn, fnargs, answer, data, value, fallback) ==
    /\ last' =
         IF validation \notin {"ok", "none"}
         THEN ValidationRaised(op, args, validation)
         ELSE IF handle.kind = "raise"
         THEN ReadFailed(op, args, validation, NoContractCall, handle.err,
                         0, fallback, handle.err)
         ELSE LET result == CallResult(handle.addr, code, answer)
                  call == [fn |-> fn, fnargs |-> fnargs,
                           handle |-> handle.addr, result |-> result,
                           data |-> IF result = "ok" THEN data ELSE None]
              IN IF result # "ok"
                 THEN ReadFailed(op, args, validation, call, result, 1,
                                 fallback, "handle")
                 ELSE [NoOp EXCEPT
                         !.op = op, !.args = args,
                         !.validation = validation, !.kind = "return",
                         !.value = value, !.network = 1, !.call = call,
                         !.resolve = "handle",
                         !.config0 = config, !.file0 = file]
    /\ fpc' = "returned"
    /\ UNCHANGED <<config, file, code, nonce, txlog, resolverVars,
                   concurrentVars, facade>>

\* a pagination that takes limit for the end position
Paginate_StopAtLimit(list, offset, limit) == PySlice(list, offset, limit)

\* all_students[offset:offset + limit], lines 229, 325, 433
Paginate(list, offset, limit) == PySlice(list, offset, offset + limit)

PageArgs == -1..MaxPage

\* a reshaping that reads every field one position too far
StudentDict_Shifted(student_data) ==
    [t |-> "dict",
     v |-> [id |-> student_data[2], name |-> student_data[3],
            major |-> student_data[4], year |-> student_data[5],
            academicSupervisor |-> student_data[6],
            active |-> student_data[1]]]

\* the tuple -> dictionary reshaping of lines 133-140
StudentDict(student_data) ==
    [t |-> "dict",
     v |-> [id |-> student_data[1], name |-> student_data[2],
            major |-> student_data[3], year |-> student_data[4],
            academicSupervisor |-> student_data[5],
            active |-> student_data[6]]]

\* lines 265-271
ProfessorDict(prof_data) ==
    [t |-> "dict",
     v |-> [id |-> prof_data[1], professorAddress |-> prof_data[2],
            name |-> prof_data[3], department |-> prof_data[4],
            active |-> prof_data[5]]]

\* lines 412-418 and 451-460
CourseDict(course_data) ==
    [t |-> "dict",
     v |-> [id |-> course_data[1], name |-> course_data[2],
            professorId |-> course_data[3], studentCount |-> course_data[4],
            active |-> course_data[5]]]

\* ------------------------------------------------- single-entity reads
\* lines 120-143; the chain answers with the stored tuple, whose first field
\* is the id asked for, or with the zero tuple of a student that is not there
get_student ==
    /\ fpc = "ready"
    /\ \E student_id \in IntArgs, answer \in CallOutcomes, exists \in BOOLEAN :
        LET student_data ==
              <<IF exists THEN student_id ELSE PyInt(0), PyStr("name"),
                PyStr("major"), PyInt(2), PyInt(3), PyBool(exists)>>
        IN Read("get_student", <<student_id>>,
                Validate(<<LeZero(student_id)>>),
                UniversityHandle, "getStudent", <<student_id>>, answer,
                PyList(student_data), StudentDict(student_data), Reraise)

\* lines 252-274
get_professor ==
    /\ fpc = "ready"
    /\ \E professor_id \in IntArgs, answer \in CallOutcomes,
          exists \in BOOLEAN :
        LET prof_data ==
              <<IF exists THEN professor_id ELSE PyInt(0), PyStr("address"),
                PyStr("name"), PyStr("department"), PyBool(exists)>>
        IN Read("get_professor", <<professor_id>>,
                Validate(<<LeZero(professor_id)>>),
                UniversityHandle, "getProfessor", <<professor_id>>, answer,
                PyList(prof_data), ProfessorDict(prof_data), Reraise)

\* lines 396-421: the Course handle is resolved by contract_finder inside the
\* try block
get_course ==
    /\ fpc = "ready"
    /\ \E course_id \in CourseIdArgs, answer \in CallOutcomes,
          abiExists \in BOOLEAN :
        LET course_data == <<course_id, PyStr("name"), PyInt(1), PyInt(0),
                             PyBool(TRUE)>>
        IN Read("get_course", <<course_id>>,
                Validate(<<IsFalsy(course_id), LeZero(course_id)>>),
                finder_get_contract("Course", config.contracts, abiExists),
                "getCourse", <<course_id>>, answer,
                PyList(course_data), CourseDict(course_data), Reraise)

\* lines 580-591
is_authorized_instructor ==
    /\ fpc = "ready"
    /\ \E address \in StrArgs, answer \in CallOutcomes,
          authorized \in BOOLEAN :
        Read("is_authorized_instructor", <<address>>, "none",
             UniversityHandle, "authorizedInstructors", <<address>>, answer,
             PyBool(authorized), PyBool(authorized), FalseOnError)

\* ------------------------------------------------- list/aggregate reads
\* lines 145-166: the four parallel lists are zipped into dictionaries
get_student_enrollments ==
    /\ fpc = "ready"
    /\ \E student_id \in IntArgs, answer \in CallOutcomes,
          course_ids \in IdLists :
        Read("get_student_enrollments", <<student_id>>, "none",
             UniversityHandle, "getStudentEnrollments", <<student_id>>,
             answer, PyList(course_ids),
             PyList([i \in 1..Len(course_ids) |->
                       [course_id |-> course_ids[i], course_name |-> "cname",
                        professor |-> "pname", department |-> "dept"]]),
             EmptyListOnError)

\* lines 215-232
get_all_students ==
    /\ fpc = "ready"
    /\ \E offset \in PageArgs, limit \in PageArgs, answer \in CallOutcomes,
          all_students \in IdLists :
        Read("get_all_students", <<PyInt(offset), PyInt(limit)>>, "none",
             UniversityHandle, "getAllStudents", <<>>, answer,
             PyList(all_students),
             PyList(Paginate(all_students, offset, limit)),
             EmptyListOnError)

\* lines 315-328
get_all_professors ==
    /\ fpc = "ready"
    /\ \E offset \in PageArgs, limit \in PageArgs, answer \in CallOutcomes,
          all_professors \in IdLists :
        Read("get_all_professors", <<PyInt(offset), PyInt(limit)>>, "none",
             UniversityHandle, "getAllProfessors", <<>>, answer,
             PyList(all_professors),
             PyList(Paginate(all_professors, offset, limit)),
             EmptyListOnError)

\* lines 423-436
get_all_courses ==
    /\ fpc = "ready"
    /\ \E offset \in PageArgs, limit \in PageArgs, answer \in CallOutcomes,
          all_courses \in IdLists :
        Read("get_all_courses", <<PyInt(offset), PyInt(limit)>>, "none",
             UniversityHandle, "getAllCourses", <<>>, answer,
             PyList(all_courses),
             PyList(Paginate(all_courses, offset, limit)),
             EmptyListOnError)

\* lines 438-463
get_courses_by_professor ==
    /\ fpc = "ready"
    /\ \E professor_id \in IntArgs, answer \in CallOutcomes,
          abiExists \in BOOLEAN, ids \in IdLists :
        LET courses_data ==
              [i \in 1..Len(ids) |->
                 <<PyInt(ids[i]), PyStr("name"), professor_id, PyInt(0),
                   PyBool(TRUE)>>]
        IN Read("get_courses_by_professor", <<professor_id>>, "none",
                finder_get_contract("Course", config.contracts, abiExists),
                "getCoursesByProfessor", <<professor_id>>, answer,
                PyList(courses_data),
                PyList([i \in 1..Len(ids) |-> CourseDict(courses_data[i])]),
                EmptyListOnError)

\* lines 531-544
get_enrolled_students ==
    /\ fpc = "ready"
    /\ \E course_id \in CourseIdArgs, answer \in CallOutcomes,
          abiExists \in BOOLEAN, ids \in IdLists :
        Read("get_enrolled_students", <<course_id>>, "none",
             finder_get_contract("Course", config.contracts, abiExists),
             "getEnrolledStudents", <<course_id>>, answer,
             PyList(ids), PyList(ids), EmptyListOnError)

\* lines 642-666: an unknown event name raises ValueError inside the try
get_past_events ==
    /\ fpc = "ready"
    /\ \E event_name \in EventNames, answer \in CallOutcomes,
          logs \in IdLists :
        Read("get_past_events", <<event_name>>, "none",
             IF event_name = PyStr("StudentEnrolled") THEN UniversityHandle
             ELSE [kind |-> "raise", err |-> "ValueError"],
             "getLogs", <<event_name>>, answer,
             PyList(logs), PyList(logs), EmptyListOnError)

SingleReadOperations ==
    \/ get_student \/ get_professor \/ get_course
    \/ is_authorized_instructor

ListReadOperations ==
    \/ get_student_enrollments
    \/ get_all_students \/ get_all_professors \/ get_all_courses
    \/ get_courses_by_professor \/ get_enrolled_students
    \/ get_past_events

\* a UniversityDataSource in use: constructed over a deployed University,
\* with the Course entry holding code (DEPLOYED_CONFIG) or stale
\* (REDEPLOYED_CONFIG)
InitOps ==
    /\ \/ /\ file = DEPLOYED_CONFIG
          /\ code = {DEPLOYED_CONFIG.contracts[t] : t \in ContractType}
          /\ nonce = Cardinality(ContractType)
       \/ /\ file = REDEPLOYED_CONFIG
          /\ code = {CreateAddress(0)}
          /\ nonce = 1
    /\ config = file
    /\ pc = "idle"
    /\ stack = <<>>
    /\ txlog = <<>>
    /\ cur = NoCall
    /\ ret = NoRet
    /\ prev = NoRet
    /\ ncalls = 0
    /\ nresets = 0
    /\ fpc = "ready"
    /\ \E account \in {None, PyStr("account")},
          admin \in {None, PyStr("admin")} :
         facade = [university_contract |-> config.contracts["University"],
                   account_address |-> account, admin_address |-> admin,
                   error |-> "none"]
    /\ last = NoOp
    /\ procs = NoProcs
    /\ sub = NoSub

\* the addresses a caller sets as sender
AddressArgs == {PyStr("account"), PyStr("other")}

\* UniversityDataSource.set_account, lines 37-39
set_account ==
    /\ fpc = "ready"
    /\ \E account_address \in AddressArgs :
         facade' = [facade EXCEPT !.account_address = account_address]
    /\ UNCHANGED <<config, file, code, nonce, txlog, resolverVars,
                   concurrentVars, fpc, last>>

\* UniversityDataSource.set_admin, lines 41-43
set_admin ==
    /\ fpc = "ready"
    /\ \E admin_address \in AddressArgs :
         facade' = [facade EXCEPT !.admin_address = admin_address]
    /\ UNCHANGED <<config, file, code, nonce, txlog, resolverVars,
                   concurrentVars, fpc, last>>

\* the caller has the operation's result (or its exception) and goes on to
\* its next statement
Continue ==
    /\ fpc = "returned"
    /\ fpc' = "ready"
    /\ last' = NoOp
    /\ UNCHANGED <<config, file, code, nonce, txlog, resolverVars,
                   concurrentVars, facade>>

NextOps ==
    \/ set_account
    \/ set_admin
    \/ WriteOperations
    \/ SingleReadOperations
    \/ ListReadOperations
    \/ Continue

SpecOps == InitOps /\ [][NextOps]_vars

\* ================================================ concurrent deployers
\* Several processes import utils and call deploy_contract; each has its own
\* module-level config dictionary, the file and the chain are shared.
Procs == 1..MaxProcs

\* the types the deployer processes deploy with deploy_contract
DeployerTypes == {"Professor", "Student", "Course"}

\* a process that does not run, and one about to import utils
Absent == [pc |-> "absent", config |-> DEFAULT_CONFIG, wrote |-> {}]
Starting == [pc |-> "start", config |-> DEFAULT_CONFIG, wrote |-> {}]

\* the (type, address) pairs stored by any process so far
Stored == UNION {procs[p].wrote : p \in DOMAIN procs}

InitDeployers ==
    /\ file = DEFAULT_CONFIG
    /\ code = {}
    /\ nonce = 0
    /\ config = file
    /\ pc = "idle"
    /\ stack = <<>>
    /\ txlog = <<>>
    /\ cur = NoCall
    /\ ret = NoRet
    /\ prev = NoRet
    /\ ncalls = 0
    /\ nresets = 0
    /\ fpc = "none"
    /\ facade = NoFacade
    /\ last = NoOp
    /\ procs \in [Procs -> {Absent, Starting}]
    /\ \E p \in Procs : procs[p] = Starting
    /\ sub = NoSub

\* utils/__init__.py lines 21-22: the process reads the file into its memory
LoadConfig(p) ==
    /\ procs[p].pc = "start"
    /\ procs' = [procs EXCEPT ![p].pc = "loaded", ![p].config = file]
    /\ UNCHANGED <<config, file, code, nonce, txlog, resolverVars,
                   facadeVars, sub>>

\* utils/__init__.py lines 32-35: the deployer address is set in memory and
\* the whole record is written back to the file
StampConfig(p) ==
    /\ procs[p].pc = "loaded"
    /\ LET cfg == [procs[p].config EXCEPT
                     !.deployer_address = DEFAULT_CONFIG.deployer_address]
       IN /\ procs' = [procs EXCEPT ![p].pc = "ready", ![p].config = cfg]
          /\ file' = cfg
    /\ UNCHANGED <<config, code, nonce, txlog, resolverVars, facadeVars,
                   sub>>

\* deploy_contract (contract_deployer.py lines 29-50) in process p, for a type
\* no process has deployed yet: the creation, then line 48 on the memory of p
\* and line 49 on the shared file
DeployerDeploys(p) ==
    /\ procs[p].pc = "ready"
    /\ Cardinality(procs[p].wrote) < MaxDeploys
    /\ \E contract_type \in DeployerTypes, outcome \in DeployOutcomes :
         LET addr == CreateAddress(nonce)
             cfg == SetAddress(procs[p].config, contract_type, addr)
         IN /\ \A pair \in Stored : pair[1] # contract_type
            /\ nonce' = IF outcome \in {"ok", "reverted", "raises_sent"}
                        THEN nonce + 1 ELSE nonce
            /\ code' = IF outcome = "ok" THEN code \cup {addr} ELSE code
            /\ IF Raises(outcome)
               THEN /\ procs' = [procs EXCEPT ![p].pc = "failed"]
                    /\ file' = file
               ELSE /\ procs' = [procs EXCEPT
                                   ![p].config = cfg,
                                   ![p].wrote = @ \cup
                                                {<<contract_type, addr>>}]
                    /\ file' = update_config(cfg)
    /\ UNCHANGED <<config, txlog, resolverVars, facadeVars, sub>>

NextDeployers ==
    \/ \E p \in Procs : LoadConfig(p)
    \/ \E p \in Procs : StampConfig(p)
    \/ \E p \in Procs : DeployerDeploys(p)

SpecDeployers == InitDeployers /\ [][NextDeployers]_vars

\* ===================================================== event subscription
\* UniversityDataSource.subscribe_to_events and the thread it starts.
\* sub.state: "none" not subscribed, "raised" the call raised, "filter" a
\* filter without a thread, "polling" the thread is at get_new_entries (or
\* asleep before it), "delivering" it is inside the for loop, "stopped" the
\* thread function returned, "exited" the process is gone.
InitEvents ==
    /\ file = DEPLOYED_CONFIG
    /\ code = {DEPLOYED_CONFIG.contracts[t] : t \in ContractType}
    /\ nonce = Cardinality(ContractType)
    /\ config = file
    /\ pc = "idle"
    /\ stack = <<>>
    /\ txlog = <<>>
    /\ cur = NoCall
    /\ ret = NoRet
    /\ prev = NoRet
    /\ ncalls = 0
    /\ nresets = 0
    /\ fpc = "ready"
    /\ facade = [university_contract |-> config.contracts["University"],
                 account_address |-> None, admin_address |-> None,
                 error |-> "none"]
    /\ last = NoOp
    /\ procs = NoProcs
    /\ sub = NoSub

\* lines 609-640: the event is looked up (ValueError when it does not
\* exist), the filter is created (created = FALSE: createFilter raises), and
\* with a callback a daemon thread is started and returned, without one the
\* filter is returned; every exception is re-raised (line 640)
subscribe_to_events ==
    /\ fpc = "ready"
    /\ sub.state = "none"
    /\ \E event_name \in EventNames, callback \in BOOLEAN,
          created \in BOOLEAN :
         LET call == [NoSub EXCEPT !.event_name = event_name,
                                   !.callback = callback]
         IN sub' =
              IF event_name # PyStr("StudentEnrolled")
              THEN [call EXCEPT !.state = "raised", !.result = "raise",
                                !.err = "ValueError"]
              ELSE IF ~created
              THEN [call EXCEPT !.state = "raised", !.result = "raise",
                                !.err = "Exception"]
              ELSE IF callback
              THEN [call EXCEPT !.state = "polling", !.result = "thread"]
              ELSE [call EXCEPT !.state = "filter", !.result = "filter"]
    /\ UNCHANGED <<config, file, code, nonce, txlog, resolverVars,
                   facadeVars, procs>>

\* the chain logs one more event that matches the filter
EmitEvent ==
    /\ sub.state \in {"filter", "polling", "delivering"}
    /\ Len(sub.emitted) < MaxEvents
    /\ sub' = [sub EXCEPT !.emitted = Append(@, Len(@) + 1)]
    /\ UNCHANGED <<config, file, code, nonce, txlog, resolverVars,
                   facadeVars, procs>>

\* a loop that hands over the newest entry of the batch first
NextEntry_Newest(batch) == batch[Len(batch)]

\* line 624, `for event in ...`: the entries are taken in the order fetched
NextEntry(batch) == Head(batch)

\* line 624: event_filter.get_new_entries() returns the entries logged since
\* the last fetch, or raises (line 629: the error is printed and the thread
\* function returns); with no new entry the thread sleeps (line 628) and
\* polls again
Poll ==
    /\ sub.state = "polling"
    /\ \E answers \in BOOLEAN :
         LET new == SubSeq(sub.emitted, Len(sub.fetched) + 1,
                           Len(sub.emitted))
         IN sub' =
              IF ~answers
              THEN [sub EXCEPT !.state = "stopped", !.cause = "fetch"]
              ELSE [sub EXCEPT
                      !.fetched = @ \o new,
                      !.batch = new,
                      !.state = IF new = <<>> THEN "polling"
                                ELSE "delivering"]
    /\ UNCHANGED <<config, file, code, nonce, txlog, resolverVars,
                   facadeVars, procs>>

\* line 625: callback(event) for the next entry of the batch; when the
\* callback raises, the rest of the batch is dropped with the loop (line
\* 629); after the last entry the thread sleeps and polls again
Deliver ==
    /\ sub.state = "delivering"
    /\ \E returns \in BOOLEAN :
         LET event == NextEntry(sub.batch)
             rest == IF event = Head(sub.batch) THEN Tail(sub.batch)
                     ELSE SubSeq(sub.batch, 1, Len(sub.batch) - 1)
         IN sub' =
              IF ~returns
              THEN [sub EXCEPT !.invoked = Append(@, event),
                               !.state = "stopped", !.cause = "callback"]
              ELSE [sub EXCEPT !.invoked = Append(@, event),
                               !.batch = rest,
                               !.state = IF rest = <<>> THEN "polling"
                                         ELSE "delivering"]
    /\ UNCHANGED <<config, file, code, nonce, txlog, resolverVars,
                   facadeVars, procs>>

\* line 632, daemon=True: the thread ends with the process
ProcessExit ==
    /\ sub.state \in {"polling", "delivering"}
    /\ sub' = [sub EXCEPT !.state = "exited", !.cause = "exit"]
    /\ UNCHANGED <<config, file, code, nonce, txlog, resolverVars,
                   facadeVars, procs>>

NextEvents ==
    \/ subscribe_to_events
    \/ EmitEvent
    \/ Poll
    \/ Deliver
    \/ ProcessExit

\* the listener thread is scheduled whenever it can run
SpecEvents ==
    InitEvents /\ [][NextEvents]_vars /\ WF_vars(Poll) /\ WF_vars(Deliver)

\* ==================================================== resolver properties
\* a is an initial part of b
IsPrefix(a, b) == Len(a) <= Len(b) /\ a = SubSeq(b, 1, Len(a))

\* "ready" (spec section 3): a non-empty address that holds code on-chain
Ready(address, chain) == Truthy(address) /\ address \in chain

\* positions of the creation transactions of a type in the current call
Positions(contract_type) ==
    {k \in 1..Len(txlog) :
        txlog[k].ct = contract_type /\ txlog[k].status # -2}

\* C1: whenever a resolver call has sent the creation of its type T, every
\* dependency of T that was not deployed (not ready) when the call started
\* was created earlier in the same call, and the dependencies created appear
\* in the declared order.
C1_DependenciesDeployedFirst ==
    \A k \in Positions(cur.ct) :
        LET deps == Dependencies(cur.ct)
        IN /\ \A d \in 1..Len(deps) :
                ~Ready(cur.cfg0[deps[d]], cur.code0)
                    => \E j \in Positions(deps[d]) : j < k
           /\ \A d, e \in 1..Len(deps) :
                d < e => \A i \in Positions(deps[d]), j \in Positions(deps[e]) :
                            i < j

\* The same ordering with "not yet deployed" read as the code reads it, an
\* empty config entry: this is what deploy_with_dependencies guarantees.
DependenciesWithEmptyEntryDeployedFirst ==
    \A k \in Positions(cur.ct) :
        LET deps == Dependencies(cur.ct)
        IN /\ \A d \in 1..Len(deps) :
                ~Truthy(cur.cfg0[deps[d]])
                    => \E j \in Positions(deps[d]) : j < k
           /\ \A d, e \in 1..Len(deps) :
                d < e => \A i \in Positions(deps[d]), j \in Positions(deps[e]) :
                            i < j

\* two consecutive completed resolver calls for the same type that both
\* returned a handle, with the first handle's code still on-chain when the
\* second call started and the second call's probe answered
TwiceInSequence ==
    /\ pc = "idle"
    /\ prev.kind = "handle"
    /\ ret.kind = "handle"
    /\ prev.ct = ret.ct
    /\ prev.addr \in cur.code0
    /\ cur.probe # "error"

\* C2 (as claimed): two resolver calls in sequence for T return the same
\* address and send exactly one creation of T in total.
C2_ExactlyOneDeployment ==
    TwiceInSequence =>
        /\ ret.addr = prev.addr
        /\ prev.ndeploy + ret.ndeploy = 1

\* C2 (amended): two resolver calls in sequence for T return the same
\* address, the second sends no creation, and the first sends one creation of
\* T exactly when its deployed-check was false and none when it was true.
C2_AtMostOneDeployment ==
    TwiceInSequence =>
        /\ ret.addr = prev.addr
        /\ ret.ndeploy = 0
        /\ prev.ndeploy = (IF prev.deployed THEN 0 ELSE 1)

\* C2 witness: the second of two calls found the address the first one
\* deployed and persisted
C2_Witness ==
    /\ TwiceInSequence
    /\ prev.ndeploy = 1
    /\ ret.ndeploy = 0
    /\ file.contracts[ret.ct] = ret.addr

\* the resolver call in progress (or just completed) started with a stale
\* entry for its type: a non-empty address that held no code
StartedStale ==
    /\ cur.ct # "none"
    /\ Truthy(cur.cfg0[cur.ct])
    /\ cur.cfg0[cur.ct] \notin cur.code0

\* C3: a resolver call for T that starts with a stale address for T finds the
\* deployed-check false and, unless a deployment raises, sends a creation of T
\* and puts the created address in the config (memory and file) in place of
\* the stale one; it never returns a handle without that creation.
C3_StaleAddressRedeployed ==
    StartedStale =>
        /\ ~cur.deployed
        /\ pc = "idle" =>
             \/ ret.kind = "error"
             \/ /\ ret.kind = "handle"
                /\ ret.ndeploy = 1
                /\ \E k \in Positions(cur.ct) :
                      /\ txlog[k].status \in {0, 1}
                      /\ ret.addr = txlog[k].addr
                      /\ config.contracts[cur.ct] = txlog[k].addr
                      /\ file.contracts[cur.ct] = txlog[k].addr

\* C3 witness: a call that started stale returned a handle at a new address
C3_Witness ==
    /\ StartedStale
    /\ pc = "idle"
    /\ ret.kind = "handle"
    /\ ret.ndeploy = 1
    /\ config.contracts[cur.ct] # cur.cfg0[cur.ct]
    /\ config.contracts[cur.ct] \in code

\* C4: whenever the resolver sends the creation of a type, every dependency
\* address passed to the constructor is ready at that moment (non-empty and
\* holding code); stated for calls in which no creation reverted.
C4_DependencyArgsReady ==
    (\A j \in 1..Len(txlog) : txlog[j].status = 1) =>
        \A k \in 1..Len(txlog) :
            \A a \in 1..Len(txlog[k].args) :
                Ready(txlog[k].args[a], txlog[k].chain)

\* C12: the deployed-check of the resolver is true iff the config has a
\* non-empty address for the type and the code probe of that address returns
\* non-empty bytecode; a probe that fails (node unreachable, exception) counts
\* as not deployed, never as deployed.
C12_DeployedCheck ==
    cur.ct # "none" =>
        /\ cur.deployed <=>
              (/\ Truthy(cur.cfg0[cur.ct])
               /\ cur.probe = "code"
               /\ cur.cfg0[cur.ct] \in cur.code0)
        /\ cur.probe = "error" => ~cur.deployed

\* C12 witness: the address holds code but the probe fails, and the call goes
\* on to deploy
C12_Witness ==
    /\ cur.ct # "none"
    /\ cur.probe = "error"
    /\ cur.cfg0[cur.ct] \in cur.code0
    /\ ~cur.deployed
    /\ pc = "dwd"

\* the constructor signature of each type as the claim declares it
DeclaredArguments(contract_type) ==
    CASE contract_type = "Course" -> <<"Professor">>
      [] contract_type = "Enrollment" -> <<"Student", "Professor", "Course">>
      [] contract_type = "University" ->
             <<"Student", "Professor", "Course", "Enrollment">>
      [] contract_type \in {"Professor", "Student"} -> <<>>

\* the config address of dep when creation k of the current resolver call is
\* sent: the address of the latest earlier creation of dep in this call that
\* got a receipt, else the address the call started with
CurrentAddress(dep, k) ==
    LET earlier == {j \in 1..(k - 1) :
                      txlog[j].ct = dep /\ txlog[j].status \in {0, 1}}
    IN IF earlier = {} THEN cur.cfg0[dep]
       ELSE txlog[CHOOSE j \in earlier : \A i \in earlier : i <= j].addr

\* C13: when deploy_with_dependencies deploys a type, the constructor
\* arguments are exactly the current config addresses of its dependencies in
\* the declared order (none for Professor and Student); a dependency deployed
\* during the same resolution contributes its freshly deployed address.
C13_ConstructorArguments ==
    pc \in {"idle", "dwd"} =>
        \A k \in 1..Len(txlog) :
            LET declared == DeclaredArguments(txlog[k].ct)
            IN /\ Len(txlog[k].args) = Len(declared)
               /\ \A a \in 1..Len(declared) :
                     txlog[k].args[a] = CurrentAddress(declared[a], k)

\* C13 witness: University resolved from the empty config, created with the
\* four addresses deployed during the same resolution
C13_Witness ==
    /\ cur.ct = "University"
    /\ \A t \in ContractType : cur.cfg0[t] = EmptyAddr
    /\ Len(txlog) = 5
    /\ txlog[5].ct = "University"
    /\ txlog[5].args = <<txlog[1].addr, txlog[2].addr, txlog[3].addr,
                         txlog[4].addr>>
    /\ txlog[3].args = <<txlog[2].addr>>

\* deploy_contract returned normally in this step: a creation got its receipt
DeployReturned ==
    /\ Len(txlog') = Len(txlog) + 1
    /\ txlog'[Len(txlog')].status \in {0, 1}

\* C14: whenever deploy_contract returns normally for type T, the in-memory
\* config entry of T is the contract address of the creation receipt and the
\* config file is a full rewrite equal to the whole in-memory config, every
\* sibling field preserved.
C14_DeployPersists ==
    [][DeployReturned =>
         LET tx == txlog'[Len(txlog')]
         IN /\ config'.contracts[tx.ct] = tx.addr
            /\ file' = config'
            /\ \A t \in ContractType \ {tx.ct} :
                  config'.contracts[t] = config.contracts[t]
            /\ config'.deployer_address = config.deployer_address]_vars

\* C14 witness: a creation got its receipt, its address is in memory and in
\* the file, next to the address of a sibling type
C14_Witness ==
    /\ Len(txlog) = 2
    /\ txlog[2].status = 1
    /\ config.contracts[txlog[2].ct] = txlog[2].addr
    /\ file = config
    /\ txlog[1].ct # txlog[2].ct
    /\ file.contracts[txlog[1].ct] = txlog[1].addr

\* C15: a creation that reverts (receipt status 0) or gets no receipt within
\* the wait makes deploy_contract fail: no handle is returned and no address
\* of that creation is written to the config or to the file.
C15_FailedCreationNotStored ==
    /\ \A k \in 1..Len(txlog) :
          txlog[k].status = 0 =>
              /\ config.contracts[txlog[k].ct] # txlog[k].addr
              /\ file.contracts[txlog[k].ct] # txlog[k].addr
    /\ (/\ pc = "idle"
        /\ txlog # <<>>
        /\ txlog[Len(txlog)].status \in {0, -1})
       => ret.kind = "error"

\* the types of the creations sent in the current call, in the order sent
RECURSIVE CreationOrder(_)
CreationOrder(log) ==
    IF log = <<>> THEN <<>>
    ELSE (IF Head(log).status # -2 THEN <<Head(log).ct>> ELSE <<>>)
         \o CreationOrder(Tail(log))

\* deploy_with_dependencies(University) from an all-empty config
FullOrder == <<"Student", "Professor", "Course", "Enrollment", "University">>

StartedEmpty == \A t \in ContractType : cur.cfg0[t] = EmptyAddr

\* C23: within one call of deploy_with_dependencies each contract type is
\* deployed at most once; from an all-empty config
\* deploy_with_dependencies(University) sends its creations in the order
\* Student, Professor, Course, Enrollment, University, and has sent exactly
\* these five when it returns.
C23_EachTypeOnce ==
    /\ \A t \in ContractType : Cardinality(Positions(t)) <= 1
    /\ (cur.ct = "University" /\ StartedEmpty) =>
          /\ IsPrefix(CreationOrder(txlog), FullOrder)
          /\ (pc = "idle" /\ ret.kind = "handle") =>
                CreationOrder(txlog) = FullOrder

\* C23 witness: University resolved from an all-empty config with five
\* creations
C23_Witness ==
    /\ pc = "idle"
    /\ cur.ct = "University"
    /\ StartedEmpty
    /\ ret.kind = "handle"
    /\ Len(txlog) = 5
    /\ \A t \in ContractType : Cardinality(Positions(t)) = 1

\* the creations of the current call that came back with a receipt
Stored_InCall == {k \in 1..Len(txlog) : txlog[k].status >= 0}

\* the resolver call in progress, or just completed, follows a failed call
\* for the same type; failed is that call's result
Follows(failed) ==
    /\ failed.kind = "error"
    /\ failed.ct = cur.ct

\* C24: when deploy_with_dependencies(T) fails while deploying T or one of
\* its dependencies, every dependency deployed earlier in the same call has
\* its new address in the in-memory config and in the file, every other
\* entry, that of the failed type included, keeps its previous value, and a
\* later resolver call for T does not deploy again the dependencies that
\* were deployed.
C24_PartialProgressKept ==
    /\ (pc = "idle" /\ ret.kind = "error") =>
          /\ \A k \in Stored_InCall :
                /\ config.contracts[txlog[k].ct] = txlog[k].addr
                /\ file.contracts[txlog[k].ct] = txlog[k].addr
          /\ ret.done = {txlog[k].ct : k \in Stored_InCall}
          /\ cur.ct \notin ret.done
          /\ \A t \in ContractType \ ret.done :
                /\ config.contracts[t] = cur.cfg0[t]
                /\ file.contracts[t] = cur.cfg0[t]
    /\ (pc = "dwd" /\ Follows(ret)) =>
          \A t \in ret.done : Positions(t) = {}
    /\ (pc = "idle" /\ ncalls >= 2 /\ Follows(prev)) =>
          \A t \in prev.done : Positions(t) = {}

\* C24 witness: a call for University failed after two dependencies were
\* deployed; the next call for University deployed the rest only
C24_Witness ==
    /\ pc = "idle"
    /\ ncalls >= 2
    /\ Follows(prev)
    /\ cur.ct = "University"
    /\ prev.done = {"Student", "Professor"}
    /\ ret.kind = "handle"
    /\ CreationOrder(txlog) = <<"Course", "Enrollment", "University">>

\* no contract type has two frames on the stack of deploy_with_dependencies
NoRevisit ==
    \A i, j \in 1..Len(stack) : i # j => stack[i].ct # stack[j].ct

\* C25: resolution terminates: when every creation comes back, a call of
\* deploy_with_dependencies(T) returns a handle or raises, after at most
\* five creations, and the recursion never comes back to a type it is
\* already resolving, T included.
C25_ResolutionTerminates ==
    /\ [](/\ NoRevisit
          /\ Len(CreationOrder(txlog)) <= Cardinality(ContractType))
    /\ (pc = "dwd") ~> (pc = "idle" /\ ret.kind \in {"handle", "error"})

\* C25 witness: a call for University ended by raising after its fifth
\* creation was sent
C25_Witness ==
    /\ pc = "idle"
    /\ cur.ct = "University"
    /\ ret.kind = "error"
    /\ Len(CreationOrder(txlog)) = Cardinality(ContractType)


\* the resolver call ended in this step with a not-found error of
\* deploy_contract
FailedNotFound ==
    /\ pc = "dwd"
    /\ pc' = "idle"
    /\ ret'.kind = "error"
    /\ ret'.err = "FileNotFoundError"

\* C18: if the ABI file or the bytecode file of a type is missing, deploying
\* that type fails with a not-found error before any transaction is built or
\* sent, and the config entry of that type (memory and file) is unchanged.
C18_MissingArtifacts ==
    [][FailedNotFound =>
         /\ txlog' = txlog
         /\ nonce' = nonce
         /\ code' = code
         /\ config'.contracts[Top.ct] = config.contracts[Top.ct]
         /\ config' = config
         /\ file' = file]_vars

\* C18 witness: University is resolved, its dependencies are created, and its
\* own artifacts are missing: the call fails after four creations with the
\* University entry still empty
C18_Witness ==
    /\ pc = "idle"
    /\ ret.kind = "error"
    /\ ret.err = "FileNotFoundError"
    /\ cur.ct = "University"
    /\ Len(txlog) = 4
    /\ \A k \in 1..4 : txlog[k].status = 1
    /\ config.contracts["University"] = EmptyAddr
    /\ file.contracts["University"] = EmptyAddr


\* ====================================================== facade properties
WriteOpNames ==
    {"add_student", "update_student", "delete_student", "add_professor",
     "update_professor", "delete_professor", "create_course",
     "update_course", "reassign_course", "delete_course",
     "enroll_student_in_course", "batch_enroll_students",
     "remove_course_from_student", "clear_all_courses_for_student",
     "authorize_instructor", "deauthorize_instructor"}
SingleReadNames ==
    {"get_student", "get_professor", "get_course",
     "is_authorized_instructor"}
PagedReadNames == {"get_all_students", "get_all_professors", "get_all_courses"}
ListReadNames ==
    PagedReadNames \cup
    {"get_student_enrollments", "get_courses_by_professor",
     "get_enrolled_students", "get_past_events"}

\* the last operation sent a transaction whose receipt has status 0
FailedReceipt ==
    /\ last.op \in WriteOpNames
    /\ last.sent = 1
    /\ last.tx.outcome = "status0"

\* C5 as stated: for every facade write operation and for either value of
\* wait_for_receipt, a transaction whose receipt status indicates failure
\* makes the operation raise, and the config record (memory and disk) is
\* left unchanged.
C5_FailedReceiptRaises ==
    FailedReceipt =>
        /\ last.kind = "raise"
        /\ config = last.config0
        /\ file = last.file0

\* C5 amended: a transaction whose receipt status indicates failure makes
\* the write operation raise when wait_for_receipt is true; when it is false
\* the receipt is never fetched and the operation returns the transaction
\* hash. The config record (memory and disk) is unchanged either way.
C5_FailedReceiptRaisesWhenWaited ==
    FailedReceipt =>
        /\ last.tx.wait => last.kind = "raise" /\ last.network = 2
        /\ ~last.tx.wait =>
              /\ last.kind = "return"
              /\ last.value = PyStr("tx_hash")
              /\ last.network = 1
        /\ config = last.config0
        /\ file = last.file0

C5_Witness ==
    /\ FailedReceipt
    /\ last.op = "delete_professor"
    /\ last.tx.wait
    /\ last.kind = "raise"

\* the positions, in the argument tuple of an operation, of its numeric
\* identifier arguments and of its required string arguments
IdentifierAndRequiredPositions(op) ==
    CASE op \in {"add_student"} -> {1, 2, 4}
      [] op \in {"update_student"} -> {1, 5}
      [] op \in {"create_course"} -> {1, 2, 3}
      [] op \in {"add_professor", "update_course", "reassign_course",
                 "enroll_student_in_course",
                 "remove_course_from_student"} -> {1, 2}
      [] op \in {"batch_enroll_students"} -> {2}
      [] op \in {"delete_student", "update_professor", "delete_professor",
                 "delete_course", "clear_all_courses_for_student",
                 "authorize_instructor", "deauthorize_instructor",
                 "get_student", "get_professor", "get_course",
                 "is_authorized_instructor", "get_student_enrollments",
                 "get_courses_by_professor",
                 "get_enrolled_students"} -> {1}
      [] OTHER -> {}

\* the positions among them that no validation of the operation looks at
UnvalidatedPositions(op) ==
    CASE op = "update_student" -> {5}
      [] op = "update_course" -> {2}
      [] op \in {"is_authorized_instructor", "get_student_enrollments",
                 "get_courses_by_professor",
                 "get_enrolled_students"} -> {1}
      [] OTHER -> {}

\* a non-positive number or an empty string
InvalidArg(x) ==
    \/ x.t = "int" /\ x.v <= 0
    \/ x.t = "str" /\ x.v = ""

FailedValidationBeforeNetwork ==
    /\ last.kind = "raise"
    /\ last.err = "ValueError"
    /\ last.network = 0
    /\ last.sent = 0

\* C6 as stated: for every facade operation, each numeric identifier
\* argument that is non-positive and each required string argument that is
\* empty makes the operation fail with a validation error before any
\* contract call or transaction is issued.
C6_InvalidArgumentsRejected ==
    (\E i \in IdentifierAndRequiredPositions(last.op) :
        InvalidArg(last.args[i]))
    => FailedValidationBeforeNetwork

\* C6 amended: the same, for the arguments the operations validate; the
\* identifier of get_student_enrollments, get_courses_by_professor and
\* get_enrolled_students, the address of is_authorized_instructor, the name
\* of update_course and the optional professor_id of update_student are
\* passed on without validation.
C6_ValidatedArgumentsRejected ==
    (\E i \in IdentifierAndRequiredPositions(last.op)
                \ UnvalidatedPositions(last.op) :
        InvalidArg(last.args[i]))
    => FailedValidationBeforeNetwork

C6_Witness ==
    /\ last.op = "enroll_student_in_course"
    /\ last.args = <<PyInt(1), PyStr("")>>
    /\ FailedValidationBeforeNetwork

\* C7: the facade obtains the University handle through the resolver with
\* redeploy-if-missing: when the import script and the node do not fail, the
\* construction ends with a facade whose University handle is bound to an
\* address holding code, whether the config entry was empty or stale.
C7_FacadeEndsWithUsableHandle ==
    (/\ fpc \in {"ready", "failed"}
     /\ facade.error \notin {"import", "FileNotFoundError", "unreachable",
                             "reverts"}
     /\ \A i \in 1..Len(txlog) : txlog[i].status = 1)
    => (fpc = "ready" /\ Ready(facade.university_contract, code))

\* the last operation is a read whose try block failed: the call reverted,
\* the node was unreachable, the address held no code, or the handle (or the
\* event) could not be resolved
ReadFailure ==
    /\ last.kind # "none"
    /\ last.validation \in {"ok", "none"}
    /\ \/ last.call.result \in {"reverts", "unreachable", "nocode"}
       \/ last.resolve \in {"FileNotFoundError", "ValueError"}

\* the import script ran to its end without raising
ImportDone == fpc \notin {"import_Professor", "import_Student",
                          "import_loop1", "import_loop2", "failed"}

\* the creations the import script sent
ScriptCreations == {i \in DOMAIN txlog : txlog[i].status # -2}

\* C22: the import script of the datasource package deploys as
\* deploy_with_dependencies does: each missing type with the constructor
\* arguments deploy_with_dependencies gives it (Course with the Professor
\* address only; University with the Student, Professor, Course and
\* Enrollment addresses, in this order), and when it has deployed University
\* no type University depends on is left without an address.
C22_ScriptMatchesResolver ==
    /\ \A i \in ScriptCreations :
          txlog[i].args = ConstructorArgs(txlog[i].ct, config.contracts)
    /\ (ImportDone /\ \E i \in ScriptCreations : txlog[i].ct = "University")
          => \A k \in 1..Len(Dependencies("University")) :
                Truthy(config.contracts[Dependencies("University")[k]])

\* what the script does: Professor, Student, Course, University in this
\* order, Course with (Professor, Student), University with (Student,
\* Professor, Course), Enrollment never
ScriptDeployments ==
    /\ \A i \in ScriptCreations :
          /\ txlog[i].ct # "Enrollment"
          /\ txlog[i].args =
               CASE txlog[i].ct = "Course" ->
                       <<config.contracts["Professor"],
                         config.contracts["Student"]>>
                 [] txlog[i].ct = "University" ->
                       <<config.contracts["Student"],
                         config.contracts["Professor"],
                         config.contracts["Course"]>>
                 [] OTHER -> <<>>
    /\ \A i, j \in ScriptCreations :
          (txlog[i].ct = "Professor" /\ txlog[j].ct = "Student") => i < j

\* C8: every list/aggregate read returns an empty sequence, and does not
\* raise, when the underlying call reverts, the node is unreachable, or
\* handle resolution fails.
C8_ListReadsReturnEmptyOnFailure ==
    (last.op \in ListReadNames /\ ReadFailure) =>
        /\ last.kind = "return"
        /\ last.value = PyList(<<>>)

C8_Witness ==
    /\ last.op = "get_courses_by_professor"
    /\ last.resolve = "FileNotFoundError"
    /\ last.kind = "return"
    /\ last.value = PyList(<<>>)

\* C9 as stated: every single-entity read (get_student, get_professor,
\* get_course, is_authorized_instructor) propagates a failure of the
\* underlying call as an error; none converts it into a normal return.
C9_SingleReadsPropagate ==
    (last.op \in SingleReadNames /\ ReadFailure) => last.kind = "raise"

\* C9 amended: get_student, get_professor and get_course propagate a failure
\* of the underlying call as an error; is_authorized_instructor returns
\* False instead.
C9_EntityReadsPropagate ==
    /\ (last.op \in SingleReadNames \ {"is_authorized_instructor"}
        /\ ReadFailure) => (last.kind = "raise" /\ last.err # "none")
    /\ (last.op = "is_authorized_instructor" /\ ReadFailure) =>
           (last.kind = "return" /\ last.value = PyBool(FALSE))

C9_Witness ==
    /\ last.op = "get_professor"
    /\ last.call.result = "reverts"
    /\ last.kind = "raise"

\* the elements of L at positions offset .. offset + limit - 1 (counted from
\* 0), clipped to the end of L
Window(L, offset, limit) ==
    LET avail == IF Len(L) > offset THEN Len(L) - offset ELSE 0
        n == IF limit < avail THEN limit ELSE avail
    IN [i \in 1..n |-> L[offset + i]]

\* C10: for every full list L returned by the chain and every offset >= 0
\* and limit >= 0, get_all_students, get_all_professors and get_all_courses
\* return exactly the elements of L at positions offset .. offset+limit-1,
\* clipped to the end of L, in order (offset 1, limit 1 over [1,2,3] gives
\* [2]); the full list is fetched with one call.
C10_PaginationWindow ==
    (/\ last.op \in PagedReadNames
     /\ last.call.result = "ok"
     /\ last.args[1].v >= 0
     /\ last.args[2].v >= 0)
    => /\ last.kind = "return"
       /\ last.value = PyList(Window(last.call.data.v, last.args[1].v,
                                     last.args[2].v))
       /\ last.network = 1
       /\ (last.call.data.v = <<1, 2, 3>> /\ last.args[1].v = 1
           /\ last.args[2].v = 1) => last.value.v = <<2>>

C10_Witness ==
    /\ last.op = "get_all_courses"
    /\ last.call.result = "ok"
    /\ last.call.data = PyList(<<1, 2, 3>>)
    /\ last.args = <<PyInt(1), PyInt(1)>>
    /\ last.value = PyList(<<2>>)

\* C11: get_student(id) with a positive id of an existing student (the chain
\* answers with that student's tuple) returns a record whose id field is the
\* requested id and whose name, major, year, academicSupervisor and active
\* fields are positions 1..5 of the tuple (counted from 0); with id <= 0 it
\* fails validation and makes no contract call.
C11_GetStudentRecord ==
    last.op = "get_student" =>
        /\ (/\ last.args[1].v > 0
            /\ last.call.result = "ok"
            /\ last.call.data.v[1] = last.args[1])
           => /\ last.kind = "return"
              /\ last.value.t = "dict"
              /\ last.value.v.id = last.args[1]
              /\ last.value.v.name = last.call.data.v[2]
              /\ last.value.v.major = last.call.data.v[3]
              /\ last.value.v.year = last.call.data.v[4]
              /\ last.value.v.academicSupervisor = last.call.data.v[5]
              /\ last.value.v.active = last.call.data.v[6]
        /\ last.args[1].v <= 0
           => /\ FailedValidationBeforeNetwork
              /\ last.call = NoContractCall

C11_Witness ==
    /\ last.op = "get_student"
    /\ last.args = <<PyInt(1)>>
    /\ last.kind = "return"
    /\ last.value.v.id = PyInt(1)
    /\ last.value.v.active = PyBool(TRUE)

AdminOpNames == {"authorize_instructor", "deauthorize_instructor"}

\* the last operation built its transaction parameters
BuiltTransaction ==
    /\ last.op \in WriteOpNames
    /\ last.tx.fn # "none"

\* the address the last operation has to send from
Sender ==
    IF last.op \in AdminOpNames THEN facade.admin_address
    ELSE facade.account_address

\* the value of key in the transaction parameters is exactly x when x was
\* supplied (is not None), and key is absent when it was not
Carries(params, key, x) ==
    IF x = None THEN \A pair \in params : pair[1] # key
    ELSE \A pair \in params \cup {<<key, x>>} :
            pair[1] = key => (pair \in params /\ pair[2] = x)

\* C16: authorize_instructor and deauthorize_instructor send from the admin
\* address and every other write operation from the account address, as
\* last set by set_admin / set_account; caller-supplied gas and gas price are
\* in the transaction parameters and absent when not supplied.
C16_SenderAndGas ==
    BuiltTransaction =>
        /\ Carries(last.tx.params, "from", Sender)
        /\ Carries(last.tx.params, "gas", last.tx.gas)
        /\ Carries(last.tx.params, "gasPrice", last.tx.gas_price)

\* the part of C16 that holds: the sender, and gas and gas price other than 0
SenderAndNonZeroGas ==
    BuiltTransaction =>
        /\ Carries(last.tx.params, "from", Sender)
        /\ last.tx.gas # PyInt(0) =>
              Carries(last.tx.params, "gas", last.tx.gas)
        /\ last.tx.gas_price # PyInt(0) =>
              Carries(last.tx.params, "gasPrice", last.tx.gas_price)
        /\ last.tx.gas = PyInt(0) => Carries(last.tx.params, "gas", None)
        /\ last.tx.gas_price = PyInt(0) =>
              Carries(last.tx.params, "gasPrice", None)

\* C17: no automatic retry: every invocation of a write operation submits at
\* most one transaction, whether the submission or the receipt succeeds or
\* fails; with wait_for_receipt false it returns the transaction hash
\* without waiting for a receipt, with wait_for_receipt true it returns only
\* with the receipt.
C17_NoRetry ==
    last.op \in WriteOpNames =>
        /\ last.sent <= 1
        /\ last.network <= last.sent + 1
        /\ (last.kind = "return" /\ ~last.tx.wait) =>
              /\ last.value = PyStr("tx_hash")
              /\ last.sent = 1
              /\ last.network = 1
        /\ (last.kind = "return" /\ last.tx.wait) =>
              /\ last.value = PyStr("receipt")
              /\ last.tx.outcome = "status1"
              /\ last.sent = 1
              /\ last.network = 2
        /\ last.kind = "raise" =>
              (last.sent = 0 <=> (\/ last.validation # "ok"
                                  \/ last.tx.outcome = "transact_raises"))

\* C17 witness: the receipt did not arrive; the operation raised after its
\* one transaction
C17_Witness ==
    /\ last.op = "create_course"
    /\ last.tx.wait
    /\ last.tx.outcome = "no_receipt"
    /\ last.kind = "raise"
    /\ last.sent = 1

\* the operations that take a course id, with the position of the course id
\* in their argument tuple
CourseIdPosition(op) ==
    CASE op \in {"create_course", "update_course", "reassign_course",
                 "delete_course", "get_course"} -> 1
      [] op \in {"enroll_student_in_course", "batch_enroll_students",
                 "remove_course_from_student"} -> 2
      [] OTHER -> 0

\* an argument that is valid for its kind: a positive integer, a non-empty
\* string, a non-empty list of positive integers
ValidArg(x) ==
    \/ x.t = "int" /\ x.v > 0
    \/ x.t = "str" /\ x.v # ""
    \/ x.t = "list" /\ x.v # <<>> /\ \A i \in 1..Len(x.v) : x.v[i] > 0

\* the last call was a course operation with a non-empty string course id
\* and otherwise valid arguments
DemoCourseCall ==
    /\ CourseIdPosition(last.op) # 0
    /\ last.args[CourseIdPosition(last.op)].t = "str"
    /\ \A i \in 1..Len(last.args) : ValidArg(last.args[i])

\* C21: the course operations called with a non-empty string course id and
\* otherwise valid arguments, and batch_enroll_students with a non-empty
\* list of positive student ids, pass validation and issue the contract
\* function with the arguments in the declared order.
C21_CourseIdsAccepted ==
    DemoCourseCall =>
        /\ last.validation = "ok"
        /\ IF last.op = "get_course"
           THEN last.resolve = "handle" =>
                   /\ last.call.fn = "getCourse"
                   /\ last.call.fnargs = last.args
           ELSE /\ last.tx.fn # "none"
                /\ last.tx.fnargs = last.args

\* what the course operations do with the identifiers they compare with 0:
\* an integer course id is accepted and the function is issued with the
\* arguments in the declared order, except by batch_enroll_students, which
\* compares its list with 0 and raises for every input
IntegerCourseIdsAccepted ==
    (/\ CourseIdPosition(last.op) # 0
     /\ \A i \in 1..Len(last.args) : ValidArg(last.args[i])) =>
        IF last.op = "batch_enroll_students" \/ DemoCourseCall
        THEN last.kind = "raise" /\ last.err = "TypeError"
                /\ last.network = 0
        ELSE /\ last.validation = "ok"
             /\ last.op # "get_course" => last.tx.fnargs = last.args

\* ================================================ concurrency properties
\* the processes that run
Running == {p \in Procs : procs[p].pc # "absent"}

\* the file lacks an address that process p stored
LostUpdate(p) ==
    \E pair \in procs[p].wrote : file.contracts[pair[1]] # pair[2]

\* C19: the config file has no locking. With a single deployer process no
\* deployed address is ever lost from the file; an address stored by one
\* process is missing from the file only when another process, whose memory
\* does not hold that address, ran as well (lost update, last writer wins).
\* The witness is the interleaving the claim describes: two processes loaded
\* the file at start, each deployed a different type, and the file lacks the
\* address one of them wrote.
C19_NoLossWithOneDeployer ==
    procs # NoProcs =>
        \A p \in Procs :
            LostUpdate(p) =>
                /\ Cardinality(Running) >= 2
                /\ \E q \in Running \ {p} :
                      /\ procs[q].pc \in {"ready", "failed"}
                      /\ file = procs[q].config
                      /\ \E pair \in procs[p].wrote :
                            procs[q].config.contracts[pair[1]] # pair[2]

C19_Witness ==
    /\ procs # NoProcs
    /\ \A p \in {1, 2} :
          /\ procs[p].pc = "ready"
          /\ Cardinality(procs[p].wrote) = 1
    /\ LostUpdate(1)
    /\ ~LostUpdate(2)
    /\ file = procs[2].config

\* ================================================= subscription properties
ListenerRunning == sub.state \in {"polling", "delivering"}

\* what holds of every subscription: the callback is invoked on the fetched
\* entries in fetch order, once each; a thread exists only for a known event
\* with a callback; without a callback the filter is returned; an unknown
\* event raises
SubscriptionSafety ==
    /\ IsPrefix(sub.fetched, sub.emitted)
    /\ IsPrefix(sub.invoked, sub.fetched)
    /\ ListenerRunning => sub.invoked \o sub.batch = sub.fetched
    /\ sub.result = "thread" <=>
          sub.state \in {"polling", "delivering", "stopped", "exited"}
    /\ sub.result = "thread" =>
          (sub.callback /\ sub.event_name = PyStr("StudentEnrolled"))
    /\ (sub.state # "none" /\ sub.event_name # PyStr("StudentEnrolled")) =>
          (sub.result = "raise" /\ sub.err = "ValueError")
    /\ (sub.state # "none" /\ ~sub.callback) =>
          sub.result \in {"filter", "raise"}
    /\ sub.result \in {"filter", "raise"} =>
          (sub.invoked = <<>> /\ sub.fetched = <<>>)

\* C20 as stated: once subscribed with a callback for an existing event, the
\* loop keeps fetching and invokes the callback once per fetched entry in
\* fetch order, and nothing other than process exit ever stops it.
C20_OnlyExitStopsLoop ==
    /\ SubscriptionSafety
    /\ sub.result = "thread" =>
          sub.state \in {"polling", "delivering", "exited"}
    /\ sub.state = "exited" => sub.cause = "exit"

\* C20 amended: the loop has no cancellation; it ends at process exit, and it
\* also ends, silently, when get_new_entries or the callback raises. Until
\* then every entry logged for the filter is fetched and the callback is
\* invoked on the fetched entries in fetch order, once each. Without a
\* callback no loop is started and the filter is returned; an unknown event
\* name raises and starts no loop.
C20_LoopRunsUntilExitOrError ==
    /\ [](/\ SubscriptionSafety
          /\ sub.state = "stopped" => sub.cause \in {"fetch", "callback"}
          /\ sub.state = "exited" => sub.cause = "exit"
          /\ ListenerRunning => sub.cause = "none")
    /\ \A n \in 1..MaxEvents :
          (ListenerRunning /\ Len(sub.emitted) >= n)
              ~> (\/ Len(sub.invoked) >= n
                  \/ sub.state \in {"stopped", "exited"})

\* C20 witness: two entries fetched in one batch and handed to the callback
\* in order, a third one fetched by a later poll
C20_Witness ==
    /\ sub.state = "delivering"
    /\ sub.invoked = <<1, 2>>
    /\ sub.fetched = <<1, 2, 3>>
    /\ sub.batch = <<3>>

====
